---- MODULE Spec2Model ----
(***************************************************************************)
(* Model of pdf_to.py: PDFKnowledgeGraphV2 (extract, build, visualize,     *)
(* save) and main.                                                         *)
(*                                                                         *)
(* Strings are sequences of tokens.  A token is either one special         *)
(* character (a blank, a digit, ":", ".", "/") or a word, a run of other   *)
(* characters.  All string operations of the code (strip, startswith,      *)
(* endswith, the numbering regex, concatenation, basename, splitext,       *)
(* lower) are computed on these sequences.                                 *)
(***************************************************************************)
EXTENDS Integers, Sequences, FiniteSets, TLC

\* Longest page, in text lines, of the exhaustively enumerated documents.
MaxLen == 4

\* Longest page of the documents main is run on.
MaxMainLen == 2

\* Rightmost x coordinate of the rectangles drawn under the measured line.
MaxX == 4

\* Largest distance of a drawn rectangle's top edge from the line's bottom.
MaxGap == 6

\* Largest height of the drawn rectangles.
MaxHeight == 6

----------------------------------------------------------------------------
(* String helpers *)

Whitespace == {" ", "\t", "\n"}

Digits == {"0", "1", "2", "3", "4", "5", "6", "7", "8", "9"}

\* str.strip(): drop leading whitespace, then trailing whitespace.
RECURSIVE LStrip(_)
LStrip(s) ==
    IF s # <<>> /\ Head(s) \in Whitespace THEN LStrip(Tail(s)) ELSE s

RECURSIVE RStrip(_)
RStrip(s) ==
    IF s # <<>> /\ s[Len(s)] \in Whitespace
    THEN RStrip(SubSeq(s, 1, Len(s) - 1))
    ELSE s

Strip(s) == RStrip(LStrip(s))

\* text.startswith(":")
StartsWithColon(s) == s # <<>> /\ s[1] = ":"

\* text.endswith(':')
EndsWithColon(s) == s # <<>> /\ s[Len(s)] = ":"

\* IsNumberedItem for the pattern ^\d\.\s*$, a single digit.
IsNumberedItemOneDigit(s) ==
    /\ Len(s) >= 2
    /\ s[1] \in Digits
    /\ s[2] = "."
    /\ \A j \in 3..Len(s) : s[j] \in Whitespace

\* re.match(r'^\d+\.\s*$', text): one or more digits, a period, then
\* whitespace only up to the end of the text.
IsNumberedItem(s) ==
    \E k \in 1..Len(s) :
        /\ k > 1
        /\ s[k] = "."
        /\ \A j \in 1..(k - 1) : s[j] \in Digits
        /\ \A j \in (k + 1)..Len(s) : s[j] \in Whitespace

\* str.lower() on the parts of a font name.
Lower(t) ==
    CASE t = "Bold" -> "bold"
      [] t = "BOLD" -> "bold"
      [] t = "Helvetica" -> "helvetica"
      [] t = "Arial" -> "arial"
      [] t = "MT" -> "mt"
      [] OTHER -> t

\* "bold" in span["font"].lower()
IsBoldFont(font) == \E k \in 1..Len(font) : Lower(font[k]) = "bold"

\* os.path.basename: what follows the last "/".
RECURSIVE Basename(_)
Basename(p) ==
    IF \E k \in 1..Len(p) : p[k] = "/"
    THEN Basename(Tail(p))
    ELSE p

\* os.path.splitext(...)[0]: cut at the last "." that has a non-"." token
\* before it; without such a period the name is returned whole.
SplitextRoot(name) ==
    LET dots == {k \in 1..Len(name) :
                    name[k] = "." /\ \E j \in 1..(k - 1) : name[j] # "."}
    IN IF dots = {} THEN name
       ELSE SubSeq(name, 1, (CHOOSE k \in dots : \A j \in dots : j <= k) - 1)

Max(a, b) == IF a >= b THEN a ELSE b
Min(a, b) == IF a <= b THEN a ELSE b
Abs(a) == IF a >= 0 THEN a ELSE 0 - a

----------------------------------------------------------------------------
(* Program constants *)

\* rect.height < 5: taller filled rectangles are not underline strokes.
UnderlineMaxHeight == 5

\* abs(rect.y0 - line_bbox[3]) < 5
UnderlineMaxGap == 5

\* font_size of the synthetic root node.
RootFontSize == 100

\* regular_font_size when the sequence has no non-bold element (8.0).
DefaultRegularFontSize == 8

PLACEHOLDER == <<"(No", " ", "description)">>

----------------------------------------------------------------------------
(* extract_structured_text_from_pdf *)

RectHeight(rect) == rect.y1 - rect.y0

\* ThinRects without the height test.
RECURSIVE ThinRectsAnyHeight(_)
ThinRectsAnyHeight(items) ==
    IF items = <<>> THEN <<>>
    ELSE LET item == Head(items)
         IN (IF item[1] = "re" THEN <<item[2]>> ELSE <<>>)
                \o ThinRectsAnyHeight(Tail(items))

\* The "re" items of one drawing that count as underline strokes.
RECURSIVE ThinRects(_)
ThinRects(items) ==
    IF items = <<>> THEN <<>>
    ELSE LET item == Head(items)
         IN (IF item[1] = "re" /\ RectHeight(item[2]) < UnderlineMaxHeight
             THEN <<item[2]>> ELSE <<>>) \o ThinRects(Tail(items))

\* underline_rects of a page: thin rectangles of the filled drawings.
RECURSIVE UnderlineRects(_)
UnderlineRects(drawings) ==
    IF drawings = <<>> THEN <<>>
    ELSE LET d == Head(drawings)
         IN (IF d.type = "f" THEN ThinRects(d.items) ELSE <<>>)
                \o UnderlineRects(Tail(drawings))

\* line_text after the span loop: every span's text followed by a blank.
RECURSIVE LineText(_)
LineText(spans) ==
    IF spans = <<>> THEN <<>>
    ELSE Head(spans).text \o <<" ">> \o LineText(Tail(spans))

\* font_size after the span loop: the largest span size, from 0.
RECURSIVE LineFontSize(_)
LineFontSize(spans) ==
    IF spans = <<>> THEN 0
    ELSE Max(Head(spans).size, LineFontSize(Tail(spans)))

LineIsBold(spans) == \E k \in 1..Len(spans) : IsBoldFont(spans[k].font)

\* font_used: the font of the last span, "" without spans.
LineFontUsed(spans) == IF spans = <<>> THEN <<>> ELSE spans[Len(spans)].font

SetMin(S) == CHOOSE x \in S : \A y \in S : x <= y
SetMax(S) == CHOOSE x \in S : \A y \in S : x >= y

\* Union of the span bounding boxes <<x0, y0, x1, y1>>; spans is not empty.
LineBBox(spans) ==
    << SetMin({spans[k].bbox[1] : k \in 1..Len(spans)}),
       SetMin({spans[k].bbox[2] : k \in 1..Len(spans)}),
       SetMax({spans[k].bbox[3] : k \in 1..Len(spans)}),
       SetMax({spans[k].bbox[4] : k \in 1..Len(spans)}) >>

\* One rectangle of underline_rects lies under the line.
RectUnderlines(line_bbox, rect) ==
    LET overlap == Min(line_bbox[3], rect.x1) - Max(line_bbox[1], rect.x0)
    IN overlap > 0 /\ Abs(rect.y0 - line_bbox[4]) < UnderlineMaxGap

LineIsUnderlined(spans, underline_rects) ==
    /\ spans # <<>>
    /\ \E k \in 1..Len(underline_rects) :
           RectUnderlines(LineBBox(spans), underline_rects[k])

\* The elements one text line contributes: none when its text is blank.
ClassifyLine(line, underline_rects, page_num) ==
    LET line_text == Strip(LineText(line.spans))
    IN IF line_text = <<>> THEN <<>>
       ELSE << [text |-> line_text,
                font |-> LineFontUsed(line.spans),
                font_size |-> LineFontSize(line.spans),
                is_bold |-> LineIsBold(line.spans),
                is_underlined |-> LineIsUnderlined(line.spans, underline_rects),
                page |-> page_num] >>

RECURSIVE ClassifyLines(_, _, _)
ClassifyLines(lines, underline_rects, page_num) ==
    IF lines = <<>> THEN <<>>
    ELSE ClassifyLine(Head(lines), underline_rects, page_num)
             \o ClassifyLines(Tail(lines), underline_rects, page_num)

\* structured_text for the pages from page_num on.
RECURSIVE ExtractPages(_, _)
ExtractPages(pages, page_num) ==
    IF pages = <<>> THEN <<>>
    ELSE ClassifyLines(Head(pages).lines,
                       UnderlineRects(Head(pages).drawings), page_num)
             \o ExtractPages(Tail(pages), page_num + 1)

ExtractStructuredText(document) == ExtractPages(document, 1)

----------------------------------------------------------------------------
(* build_knowledge_graph: the pure parts *)

\* root = os.path.splitext(os.path.basename(pdf_name))[0]
RootId(pdf_name) == SplitextRoot(Basename(pdf_name))

\* The font size of the first non-bold element, 8.0 when there is none.
\* RegularFontSize looking only at the elements that are no numbering items.
RegularFontSizeSkippingNumbered(elems) ==
    LET plain == {k \in 1..Len(elems) :
                     ~elems[k].is_bold /\ ~IsNumberedItem(elems[k].text)}
    IN IF plain = {} THEN DefaultRegularFontSize
       ELSE elems[SetMin(plain)].font_size

RegularFontSize(elems) ==
    LET plain == {k \in 1..Len(elems) : ~elems[k].is_bold}
    IN IF plain = {} THEN DefaultRegularFontSize
       ELSE elems[SetMin(plain)].font_size

\* next_starts_with_colon for the k-th element (counted from 1).
\* The lookahead without the test that the next element is not bold.
NextStartsWithColonAnyWeight(elems, k) ==
    IF k < Len(elems)
    THEN StartsWithColon(elems[k + 1].text)
    ELSE FALSE

NextStartsWithColon(elems, k) ==
    IF k < Len(elems) /\ ~elems[k + 1].is_bold
    THEN StartsWithColon(elems[k + 1].text)
    ELSE FALSE

\* is_heading of a bold element.
IsHeading(elem, regular, next_colon) ==
    \/ elem.font_size > regular
    \/ EndsWithColon(elem.text)
    \/ next_colon

Pop(stack) == SubSeq(stack, 1, Len(stack) - 1)

\* SelectParent with the underline tie-break lost: at equal font size the
\* candidate is popped whatever the two underline flags are.
RECURSIVE SelectParentNoTieBreak(_, _, _, _, _)
SelectParentNoTieBreak(stack, graph_nodes, root_id, font_size, is_underlined) ==
    IF stack = <<>> THEN stack
    ELSE LET candidate == stack[Len(stack)]
             candidate_fs == graph_nodes[candidate].font_size
         IN IF candidate = root_id \/ candidate_fs > font_size THEN stack
            ELSE SelectParentNoTieBreak(Pop(stack), graph_nodes, root_id,
                                        font_size, is_underlined)

\* SelectParent without the test that the candidate is the root.
RECURSIVE SelectParentNoRootTest(_, _, _, _, _)
SelectParentNoRootTest(stack, graph_nodes, root_id, font_size, is_underlined) ==
    IF stack = <<>> THEN stack
    ELSE LET candidate == stack[Len(stack)]
             candidate_fs == graph_nodes[candidate].font_size
             candidate_underlined == graph_nodes[candidate].is_underlined
             popped == SelectParentNoRootTest(Pop(stack), graph_nodes,
                                              root_id, font_size,
                                              is_underlined)
         IN IF candidate_fs > font_size THEN stack
            ELSE IF candidate_fs = font_size
                 THEN IF candidate_underlined = is_underlined THEN popped
                      ELSE IF candidate_underlined /\ ~is_underlined THEN stack
                      ELSE popped
                 ELSE popped

\* SelectParent that stops at every candidate of the heading's font size.
RECURSIVE SelectParentStopsAtEqual(_, _, _, _, _)
SelectParentStopsAtEqual(stack, graph_nodes, root_id, font_size, is_underlined) ==
    IF stack = <<>> THEN stack
    ELSE LET candidate == stack[Len(stack)]
             candidate_fs == graph_nodes[candidate].font_size
         IN IF candidate = root_id \/ candidate_fs >= font_size THEN stack
            ELSE SelectParentStopsAtEqual(Pop(stack), graph_nodes, root_id,
                                          font_size, is_underlined)

\* SelectParent without the pop of a strictly smaller candidate.
RECURSIVE SelectParentKeepsSmaller(_, _, _, _, _)
SelectParentKeepsSmaller(stack, graph_nodes, root_id, font_size, is_underlined) ==
    IF stack = <<>> THEN stack
    ELSE LET candidate == stack[Len(stack)]
             candidate_fs == graph_nodes[candidate].font_size
             candidate_underlined == graph_nodes[candidate].is_underlined
             popped == SelectParentKeepsSmaller(Pop(stack), graph_nodes,
                                                root_id, font_size,
                                                is_underlined)
         IN IF candidate = root_id \/ candidate_fs > font_size THEN stack
            ELSE IF candidate_fs = font_size
                 THEN IF candidate_underlined = is_underlined THEN popped
                      ELSE IF candidate_underlined /\ ~is_underlined THEN stack
                      ELSE popped
                 ELSE stack

\* The parent selection loop: node_stack when the while loop is left.
RECURSIVE SelectParent(_, _, _, _, _)
SelectParent(stack, graph_nodes, root_id, font_size, is_underlined) ==
    IF stack = <<>> THEN stack
    ELSE LET candidate == stack[Len(stack)]
             candidate_fs == graph_nodes[candidate].font_size
             candidate_underlined == graph_nodes[candidate].is_underlined
             popped == SelectParent(Pop(stack), graph_nodes, root_id,
                                    font_size, is_underlined)
         IN IF candidate = root_id \/ candidate_fs > font_size THEN stack
            ELSE IF candidate_fs = font_size
                 THEN IF candidate_underlined = is_underlined THEN popped
                      ELSE IF candidate_underlined /\ ~is_underlined THEN stack
                      ELSE IF ~candidate_underlined /\ is_underlined THEN popped
                      ELSE stack
                 ELSE popped

\* NewNodeAttrs with the level taken after the push.
NewNodeAttrsAfterPush(stack, elem) ==
    [level |-> Len(stack) + 1, content |-> <<>>, font_size |-> elem.font_size,
     is_underlined |-> elem.is_underlined]

\* The attributes of a heading inserted with `stack` as node_stack (before
\* its own push).
NewNodeAttrs(stack, elem) ==
    [level |-> Len(stack), content |-> <<>>, font_size |-> elem.font_size,
     is_underlined |-> elem.is_underlined]

\* node_stack after the empty-stack fallback.
WithRootFallback(stack, root_id) == IF stack = <<>> THEN <<root_id>> ELSE stack

\* graph.add_node(id, **attrs): a new node, or new attributes for an old one.
AddNode(graph_nodes, id, attrs) ==
    [n \in (DOMAIN graph_nodes) \cup {id} |->
        IF n = id THEN attrs ELSE graph_nodes[n]]

\* graph.add_edge(u, v)
AddEdge(graph_edges, u, v) == graph_edges \cup {<<u, v>>}

\* graph.nodes[id]["content"] += " " + text
AppendText(graph_nodes, id, text) ==
    [graph_nodes EXCEPT ![id].content = @ \o <<" ">> \o text]

\* CleanContent without the placeholder.
CleanContentNoPlaceholder(content) == Strip(content)

\* The content clean-up of one node.
CleanContent(content) ==
    IF Strip(content) = <<>> THEN PLACEHOLDER ELSE Strip(content)

----------------------------------------------------------------------------
(* Inputs: the documents and paths main is run on *)

BoldFont == <<"Helvetica", "-", "Bold">>
PlainFont == <<"Helvetica">>

\* A thin filled stroke, a tall filled box and a thin stroked (not filled)
\* rectangle.
PageDrawings ==
    << [type |-> "f",
        items |-> << <<"re", [x0 |-> 50, y0 |-> 102, x1 |-> 150, y1 |-> 103]>> >>],
       [type |-> "f",
        items |-> << <<"re", [x0 |-> 50, y0 |-> 212, x1 |-> 150, y1 |-> 220]>> >>],
       [type |-> "s",
        items |-> << <<"re", [x0 |-> 50, y0 |-> 211, x1 |-> 150, y1 |-> 212]>> >>] >>

\* Where a line sits: right above the thin filled stroke, or above the tall
\* box and the stroked rectangle.
OverStroke == <<50, 90, 150, 100>>
OverBox == <<50, 200, 150, 210>>

OneSpan(text, font, size, bbox) ==
    [spans |-> << [text |-> text, font |-> font, size |-> size, bbox |-> bbox] >>]

TitleLine == OneSpan(<<"Title">>, BoldFont, 14, OverBox)

\* Two spans: "Section" and "A:".
SectionALine ==
    [spans |-> << [text |-> <<"Section">>, font |-> BoldFont, size |-> 12,
                   bbox |-> <<50, 90, 100, 100>>],
                  [text |-> <<"A", ":">>, font |-> BoldFont, size |-> 11,
                   bbox |-> <<100, 91, 150, 100>>] >>]

SectionAPlainLine == OneSpan(<<"Section", " ", "A", ":">>, BoldFont, 12, OverBox)
SectionBLine == OneSpan(<<"Section", " ", "B", ":">>, BoldFont, 12, OverBox)
Body1Line == OneSpan(<<"body", "1">>, PlainFont, 10, OverBox)
Body2Line == OneSpan(<<"body", "2">>, PlainFont, 10, OverBox)
NumberedBoldLine == OneSpan(<<"3", ".">>, BoldFont, 12, OverBox)
NumberedPlainLine == OneSpan(<<" ", "1", "2", ".", " ">>, PlainFont, 10, OverBox)
NoteLine == OneSpan(<<"note">>, BoldFont, 10, OverBox)
ColonLine == OneSpan(<<":", " ", "x">>, PlainFont, 12, OverBox)
BlankLine == OneSpan(<<" ">>, PlainFont, 10, OverBox)
ColonBoldLine == OneSpan(<<":", " ", "y">>, BoldFont, 10, OverBox)

Lines ==
    { TitleLine, SectionALine, SectionAPlainLine, SectionBLine, Body1Line,
      NumberedBoldLine, NumberedPlainLine, NoteLine, ColonLine }

OnePage(lines) == << [drawings |-> PageDrawings, lines |-> lines] >>

\* The tie-break scenario: title, "Section A:" underlined, body1,
\* "Section B:" not underlined, body2.
TieBreakDoc ==
    OnePage(<<TitleLine, SectionALine, Body1Line, SectionBLine, Body2Line>>)

\* Two pages, the first with a blank line.
TwoPageDoc ==
    OnePage(<<TitleLine, BlankLine, SectionBLine>>) \o OnePage(<<ColonLine>>)

\* A level 2 heading followed by a larger heading, then body text.
PopBackDoc ==
    OnePage(<<TitleLine, SectionALine, SectionBLine, TitleLine, Body1Line>>)

\* The lines around the lookahead: small bold lines and lines that start
\* with a colon, bold and not.
LookaheadLines == { Body1Line, NoteLine, ColonLine, ColonBoldLine }

SeqsUpTo(S, n) == UNION {[1..k -> S] : k \in 0..n}

Documents ==
    {OnePage(ls) : ls \in SeqsUpTo(Lines, MaxLen)}
        \cup {OnePage(ls) : ls \in SeqsUpTo(LookaheadLines, MaxLen)}
        \cup {TieBreakDoc, TwoPageDoc, PopBackDoc}

MainDocuments ==
    {OnePage(ls) : ls \in SeqsUpTo(Lines, MaxMainLen)} \cup {TieBreakDoc}

\* A line of two spans whose union box is <<1, 10, 3, 20>>.
MeasuredLine ==
    [spans |-> << [text |-> <<"Heading">>, font |-> BoldFont, size |-> 12,
                   bbox |-> <<1, 10, 2, 19>>],
                  [text |-> <<"one">>, font |-> BoldFont, size |-> 12,
                   bbox |-> <<2, 12, 3, 20>>] >>]

\* A filled box of height 8 that starts one unit below the measured line.
ThickBox ==
    [type |-> "f",
     items |-> << <<"re", [x0 |-> 0, y0 |-> 21, x1 |-> 4, y1 |-> 29]>> >>]

\* The drawings with one item: filled or stroked, a rectangle or a line
\* item, anywhere around the bottom edge of the measured line.
MeasuredDrawings ==
    { [type |-> t,
       items |-> << <<kind, [x0 |-> x0, y0 |-> y0, x1 |-> x1, y1 |-> y0 + h]>> >>] :
         t \in {"f", "s"}, kind \in {"re", "l"},
         x0 \in 0..MaxX, x1 \in 0..MaxX,
         y0 \in (20 - MaxGap)..(20 + MaxGap), h \in 0..MaxHeight }

\* One page, one line, the thick box and one more drawing.
MeasuredDocuments ==
    { << [drawings |-> <<ThickBox, d>>, lines |-> <<MeasuredLine>>] >> :
        d \in {m \in MeasuredDrawings : m.items[1][2].x0 <= m.items[1][2].x1} }

PdfPaths ==
    { <<"docs", "/", "report", ".", "v", "2", ".", "pdf">>,
      <<"Title", ".", "pdf">> }

----------------------------------------------------------------------------
(* State *)

VARIABLES
    pdf_path,            \* main's pdf_path
    document,            \* what fitz.open(pdf_path) reads
    pc,                  \* where main is
    ret,                 \* main's return value: {} until it returns
    html_file,           \* what visualize wrote: {} or one page description
    json_file,           \* what save_graph_json wrote: {} or one graph_data
    elements,            \* structured_text / elements
    nodes,               \* self.graph: node id -> attributes
    edges,               \* self.graph: the edges <<from, to>>
    root,
    current_node,
    node_stack,
    first_bold_skipped,
    regular_font_size,
    nodes_added,
    i                    \* index of the element being processed, from 1

vars ==
    << pdf_path, document, pc, ret, html_file, json_file, elements, nodes,
       edges, root, current_node, node_stack, first_bold_skipped,
       regular_font_size, nodes_added, i >>

main_vars == << pdf_path, document, ret, html_file, json_file >>

build_locals ==
    << root, current_node, node_stack, first_bold_skipped, regular_font_size,
       nodes_added, i >>

NoNodes == [n \in {} |-> n]

BeforeMain ==
    /\ pc = "extract"
    /\ ret = {}
    /\ html_file = {}
    /\ json_file = {}
    /\ elements = <<>>
    /\ nodes = NoNodes
    /\ edges = {}
    /\ root = <<>>
    /\ current_node = <<>>
    /\ node_stack = <<>>
    /\ first_bold_skipped = FALSE
    /\ regular_font_size = 0
    /\ nodes_added = 0
    /\ i = 0

Init ==
    /\ pdf_path \in PdfPaths
    /\ document \in Documents
    /\ BeforeMain

MainInit ==
    /\ pdf_path \in PdfPaths
    /\ document \in MainDocuments
    /\ BeforeMain

ExtractInit ==
    /\ pdf_path \in PdfPaths
    /\ document \in MeasuredDocuments
    /\ BeforeMain

----------------------------------------------------------------------------
(* main: elements = kg.extract_structured_text_from_pdf(pdf_path) *)

ExtractOk ==
    /\ pc = "extract"
    /\ elements' = ExtractStructuredText(document)
    /\ pc' = "build"
    /\ UNCHANGED << main_vars, nodes, edges, build_locals >>

\* fitz.open or a page read raises; main prints the error and returns 1.
ExtractRaise ==
    /\ pc = "extract"
    /\ pc' = "returned"
    /\ ret' = {1}
    /\ UNCHANGED << pdf_path, document, html_file, json_file, elements, nodes,
                    edges, build_locals >>

----------------------------------------------------------------------------
(* build_knowledge_graph *)

RootAttrs ==
    [level |-> 0, content |-> <<>>, font_size |-> RootFontSize,
     is_underlined |-> FALSE]

\* Everything before the element loop.
BuildInit ==
    /\ pc = "build"
    /\ root' = RootId(pdf_path)
    /\ nodes' = AddNode(nodes, root', RootAttrs)
    /\ current_node' = root'
    /\ node_stack' = <<root'>>
    /\ first_bold_skipped' = FALSE
    /\ regular_font_size' = RegularFontSize(elements)
    /\ nodes_added' = 0
    /\ i' = 1
    /\ pc' = "loop"
    /\ UNCHANGED << main_vars, elements, edges >>

InLoop == pc = "loop" /\ i <= Len(elements)

\* IsFirstBold without the first_bold_skipped test.
IsFirstBoldAlways(elem, skipped) == elem.is_bold

\* if is_bold and not first_bold_skipped
IsFirstBold(elem, skipped) == elem.is_bold /\ ~skipped

\* The element is handled by the code after the two skips.
PastSkips(elem, skipped) ==
    ~IsFirstBold(elem, skipped) /\ ~IsNumberedItem(elem.text)

\* The bold element elems[k] is promoted to a node.
Promoted(elems, k, regular) ==
    /\ elems[k].is_bold
    /\ IsHeading(elems[k], regular, NextStartsWithColon(elems, k))

SkipFirstBold ==
    /\ InLoop
    /\ IsFirstBold(elements[i], first_bold_skipped)
    /\ first_bold_skipped' = TRUE
    /\ i' = i + 1
    /\ UNCHANGED << main_vars, pc, elements, nodes, edges, root, current_node,
                    node_stack, regular_font_size, nodes_added >>

SkipNumbered ==
    /\ InLoop
    /\ ~IsFirstBold(elements[i], first_bold_skipped)
    /\ IsNumberedItem(elements[i].text)
    /\ i' = i + 1
    /\ UNCHANGED << main_vars, pc, elements, nodes, edges, root, current_node,
                    node_stack, first_bold_skipped, regular_font_size,
                    nodes_added >>

\* InsertHeading without the push of the new node on node_stack.
InsertHeadingNoPush ==
    /\ InLoop
    /\ PastSkips(elements[i], first_bold_skipped)
    /\ Promoted(elements, i, regular_font_size)
    /\ LET elem == elements[i]
           stack == WithRootFallback(
                        SelectParent(node_stack, nodes, root, elem.font_size,
                                     elem.is_underlined), root)
           parent_node == stack[Len(stack)]
           new_node_id == elem.text
       IN /\ nodes' = AddNode(nodes, new_node_id, NewNodeAttrs(stack, elem))
          /\ edges' = AddEdge(edges, parent_node, new_node_id)
          /\ current_node' = new_node_id
          /\ node_stack' = stack
    /\ nodes_added' = nodes_added + 1
    /\ i' = i + 1
    /\ UNCHANGED << main_vars, pc, elements, root, first_bold_skipped,
                    regular_font_size >>

InsertHeading ==
    /\ InLoop
    /\ PastSkips(elements[i], first_bold_skipped)
    /\ Promoted(elements, i, regular_font_size)
    /\ LET elem == elements[i]
           stack == WithRootFallback(
                        SelectParent(node_stack, nodes, root, elem.font_size,
                                     elem.is_underlined), root)
           parent_node == stack[Len(stack)]
           new_node_id == elem.text
       IN /\ nodes' = AddNode(nodes, new_node_id, NewNodeAttrs(stack, elem))
          /\ edges' = AddEdge(edges, parent_node, new_node_id)
          /\ current_node' = new_node_id
          /\ node_stack' = Append(stack, new_node_id)
    /\ nodes_added' = nodes_added + 1
    /\ i' = i + 1
    /\ UNCHANGED << main_vars, pc, elements, root, first_bold_skipped,
                    regular_font_size >>

\* Bold text that is no heading, and all non-bold text.
\* AppendContent writing to the entry below the stack top, the parent of the
\* current node, when there is one.
AppendContentToStackParent ==
    /\ InLoop
    /\ PastSkips(elements[i], first_bold_skipped)
    /\ ~Promoted(elements, i, regular_font_size)
    /\ LET target == IF Len(node_stack) >= 2
                     THEN node_stack[Len(node_stack) - 1]
                     ELSE current_node
       IN nodes' = IF target \in DOMAIN nodes
                   THEN AppendText(nodes, target, elements[i].text)
                   ELSE nodes
    /\ i' = i + 1
    /\ UNCHANGED << main_vars, pc, elements, edges, root, current_node,
                    node_stack, first_bold_skipped, regular_font_size,
                    nodes_added >>

AppendContent ==
    /\ InLoop
    /\ PastSkips(elements[i], first_bold_skipped)
    /\ ~Promoted(elements, i, regular_font_size)
    /\ nodes' = IF current_node \in DOMAIN nodes
                THEN AppendText(nodes, current_node, elements[i].text)
                ELSE nodes
    /\ i' = i + 1
    /\ UNCHANGED << main_vars, pc, elements, edges, root, current_node,
                    node_stack, first_bold_skipped, regular_font_size,
                    nodes_added >>

\* After the loop: trim every node's content, placeholder when empty.
CleanUp ==
    /\ pc = "loop"
    /\ i > Len(elements)
    /\ nodes' = [n \in DOMAIN nodes |->
                    [nodes[n] EXCEPT !.content = CleanContent(@)]]
    /\ pc' = "visualize"
    /\ UNCHANGED << main_vars, elements, edges, build_locals >>

\* An exception inside the try block: printed, re-raised, main returns 1.
BuildRaise ==
    /\ InLoop
    /\ pc' = "returned"
    /\ ret' = {1}
    /\ UNCHANGED << pdf_path, document, html_file, json_file, elements, nodes,
                    edges, build_locals >>

----------------------------------------------------------------------------
(* visualize and save_graph_json *)

NodeColor(attrs) ==
    IF attrs.is_underlined THEN "#FFD700"
    ELSE CASE attrs.level = 0 -> "#ff0000"
           [] attrs.level = 1 -> "#00cc00"
           [] attrs.level = 2 -> "#0099ff"
           [] attrs.level = 3 -> "#9933ff"
           [] attrs.level = 4 -> "#ff9900"
           [] OTHER -> "#cccccc"

VisualizeOk ==
    /\ pc = "visualize"
    /\ html_file' = { [colors |-> [n \in DOMAIN nodes |-> NodeColor(nodes[n])],
                       edges |-> edges] }
    /\ pc' = "save"
    /\ UNCHANGED << pdf_path, document, ret, json_file, elements, nodes, edges,
                    build_locals >>

\* VisualizeRaise with the exception swallowed: main goes on to save.
VisualizeRaiseSwallowed ==
    /\ pc = "visualize"
    /\ pc' = "save"
    /\ UNCHANGED << main_vars, elements, nodes, edges, build_locals >>

VisualizeRaise ==
    /\ pc = "visualize"
    /\ pc' = "returned"
    /\ ret' = {1}
    /\ UNCHANGED << pdf_path, document, html_file, json_file, elements, nodes,
                    edges, build_locals >>

\* save_graph_json, then main returns 0.
SaveOk ==
    /\ pc = "save"
    /\ json_file' = { [nodes |-> nodes, edges |-> edges] }
    /\ pc' = "returned"
    /\ ret' = {0}
    /\ UNCHANGED << pdf_path, document, html_file, elements, nodes, edges,
                    build_locals >>

SaveRaise ==
    /\ pc = "save"
    /\ pc' = "returned"
    /\ ret' = {1}
    /\ UNCHANGED << pdf_path, document, html_file, json_file, elements, nodes,
                    edges, build_locals >>

----------------------------------------------------------------------------

\* The class used on its own: extract, then build.
Next ==
    \/ ExtractOk
    \/ BuildInit
    \/ SkipFirstBold
    \/ SkipNumbered
    \/ InsertHeading
    \/ AppendContent
    \/ CleanUp

Spec == Init /\ [][Next]_vars

\* main: the four stages, each of which may raise.
MainNext ==
    \/ ExtractOk
    \/ ExtractRaise
    \/ BuildInit
    \/ SkipFirstBold
    \/ SkipNumbered
    \/ InsertHeading
    \/ AppendContent
    \/ CleanUp
    \/ BuildRaise
    \/ VisualizeOk
    \/ VisualizeRaise
    \/ SaveOk
    \/ SaveRaise

MainSpec == MainInit /\ [][MainNext]_vars

\* The extraction alone, on the measured documents.
ExtractNext == ExtractOk

ExtractSpec == ExtractInit /\ [][ExtractNext]_vars

----------------------------------------------------------------------------
(* Properties *)

\* build_knowledge_graph has returned.
Built == pc = "visualize"

Incoming(n) == {e \in edges : e[2] = n}

\* Every inserted heading text is a node of its own: the texts are pairwise
\* distinct and none is the root id.
DistinctHeadings == Cardinality(DOMAIN nodes) = nodes_added + 1

SectionA == <<"Section", " ", "A", ":">>
SectionB == <<"Section", " ", "B", ":">>
Body1 == <<"body", "1">>
Body2 == <<"body", "2">>

\* C1: in the final graph the root is the only node without an incoming
\* edge, every other node has exactly one incoming edge, and no edge is a
\* self-loop, for every element sequence.
C1_SingleRootTree ==
    Built =>
        /\ \A e \in edges : e[1] # e[2]
        /\ Incoming(root) = {}
        /\ \A n \in (DOMAIN nodes) \ {root} : Cardinality(Incoming(n)) = 1

\* The elements of the tie-break scenario, by the fields the builder reads.
TieBreakElements ==
    << [text |-> <<"Title">>, is_bold |-> TRUE, font_size |-> 14,
        is_underlined |-> FALSE],
       [text |-> SectionA, is_bold |-> TRUE, font_size |-> 12,
        is_underlined |-> TRUE],
       [text |-> Body1, is_bold |-> FALSE, font_size |-> 10,
        is_underlined |-> FALSE],
       [text |-> SectionB, is_bold |-> TRUE, font_size |-> 12,
        is_underlined |-> FALSE],
       [text |-> Body2, is_bold |-> FALSE, font_size |-> 10,
        is_underlined |-> FALSE] >>

BuilderFields(elem) ==
    [text |-> elem.text, is_bold |-> elem.is_bold,
     font_size |-> elem.font_size, is_underlined |-> elem.is_underlined]

IsTieBreakRun ==
    [k \in 1..Len(elements) |-> BuilderFields(elements[k])] = TieBreakElements

InsertsHeading == InLoop /\ nodes_added' = nodes_added + 1

\* C3: a heading H2 that follows the heading H1 (no heading between them),
\* has H1's font size and is, like H1, not underlined, gets H1's parent and
\* H1's level and is not a child of H1.
C3_EqualHeadingsAreSiblings ==
    [][ ( /\ InsertsHeading
          /\ nodes_added > 0
          /\ elements[i].font_size = nodes[current_node].font_size
          /\ ~elements[i].is_underlined
          /\ ~nodes[current_node].is_underlined )
        => LET H1 == current_node
               H2 == elements[i].text
               parentH1 == node_stack[Len(node_stack) - 1]
               parentH2 == node_stack'[Len(node_stack') - 1]
           IN /\ parentH2 = parentH1
              /\ <<parentH2, H2>> \in edges'
              /\ nodes'[H2].level = nodes[H1].level
              /\ parentH2 # H1 ]_vars

\* C3 for heading texts that are pairwise distinct and differ from the root
\* id.
C3_DistinctEqualHeadingsAreSiblings ==
    [][ ( /\ InsertsHeading
          /\ nodes_added > 0
          /\ Cardinality(DOMAIN nodes') = nodes_added' + 1
          /\ elements[i].font_size = nodes[current_node].font_size
          /\ ~elements[i].is_underlined
          /\ ~nodes[current_node].is_underlined )
        => LET H1 == current_node
               H2 == elements[i].text
               parentH1 == node_stack[Len(node_stack) - 1]
               parentH2 == node_stack'[Len(node_stack') - 1]
           IN /\ parentH2 = parentH1
              /\ <<parentH2, H2>> \in edges'
              /\ nodes'[H2].level = nodes[H1].level
              /\ parentH2 # H1 ]_vars

\* The first bold element of the sequence.
FirstBold == elements[SetMin({k \in 1..Len(elements) : elements[k].is_bold})]

\* C4: processing the first bold element adds no node and no edge and
\* changes no content, whatever its font size and text; the skip is taken
\* once, and every later bold element (not a numbering item) is inserted as
\* a node or appended to the current node's content.
C4_FirstBoldSkippedOnce ==
    [][ /\ (InLoop /\ elements[i].is_bold /\ ~first_bold_skipped)
            => (nodes' = nodes /\ edges' = edges /\ first_bold_skipped')
        /\ (pc = "loop" /\ first_bold_skipped) => first_bold_skipped'
        /\ ( /\ InLoop
             /\ elements[i].is_bold
             /\ first_bold_skipped
             /\ ~IsNumberedItem(elements[i].text) )
            => \/ /\ nodes_added' = nodes_added + 1
                  /\ elements[i].text \in DOMAIN nodes'
                  /\ current_node' = elements[i].text
               \/ /\ nodes_added' = nodes_added
                  /\ DOMAIN nodes' = DOMAIN nodes
                  /\ nodes'[current_node].content =
                         nodes[current_node].content \o <<" ">> \o elements[i].text
      ]_vars

\* A first bold element that qualifies as a heading by size and by colon was
\* skipped, and a later bold element was inserted.
C4_Witness ==
    /\ pc = "loop"
    /\ first_bold_skipped
    /\ nodes_added > 0
    /\ DistinctHeadings
    /\ FirstBold.font_size > regular_font_size
    /\ EndsWithColon(FirstBold.text)
    /\ FirstBold.text \notin DOMAIN nodes

\* One or more digits, then a period, then whitespace only.
NumberingText(s) ==
    \E n \in 1..(Len(s) - 1) :
        /\ \A j \in 1..n : s[j] \in Digits
        /\ s[n + 1] = "."
        /\ \A j \in (n + 2)..Len(s) : s[j] \in Whitespace

\* C5: processing an element whose text is digits, a period and whitespace
\* leaves the graph and the builder's position in it unchanged, bold or not,
\* wherever it stands.
C5_NumberedItemDropped ==
    [][ (InLoop /\ NumberingText(elements[i].text))
        => /\ nodes' = nodes
           /\ edges' = edges
           /\ current_node' = current_node
           /\ node_stack' = node_stack
           /\ nodes_added' = nodes_added ]_vars

\* A bold numbering item larger than regular text, not the first bold
\* element, has been processed, as has a non-bold one with two digits.
C5_Witness ==
    /\ pc = "loop"
    /\ \E k \in 2..(i - 1) :
           /\ NumberingText(elements[k].text)
           /\ elements[k].is_bold
           /\ elements[k].font_size > regular_font_size
           /\ \E j \in 1..(k - 1) : elements[j].is_bold
           /\ elements[k].text \notin DOMAIN nodes
    /\ \E k \in 1..(i - 1) :
           /\ NumberingText(elements[k].text)
           /\ ~elements[k].is_bold
           /\ Len(elements[k].text) > 2
    /\ \A n \in DOMAIN nodes : nodes[n].content = <<>>

\* C6: a heading is inserted with empty content; the clean-up turns empty
\* content into the placeholder and any other content into its text without
\* the leading blank; after the build no node has empty content.
C6_NoEmptyContent ==
    [][ /\ InsertsHeading => nodes'[elements[i].text].content = <<>>
        /\ (pc = "loop" /\ pc' = "visualize")
            => /\ DOMAIN nodes' = DOMAIN nodes
               /\ \A n \in DOMAIN nodes :
                    /\ nodes[n].content = <<>>
                         => nodes'[n].content = PLACEHOLDER
                    /\ nodes[n].content # <<>>
                         => /\ nodes[n].content = <<" ">> \o nodes'[n].content
                            /\ nodes'[n].content[1] \notin Whitespace
                            /\ nodes'[n].content[Len(nodes'[n].content)]
                                   \notin Whitespace
        /\ Built' => \A n \in DOMAIN nodes' : nodes'[n].content # <<>>
      ]_vars

\* A built graph with a heading that got the placeholder and a heading that
\* kept its text.
C6_Witness ==
    /\ Built
    /\ \E n \in (DOMAIN nodes) \ {root} : nodes[n].content = PLACEHOLDER
    /\ \E n \in (DOMAIN nodes) \ {root} : nodes[n].content = Body1

\* C8: when the heading texts are pairwise distinct and differ from the root
\* id, every edge goes from a node of level l to a node of level l + 1, the
\* level being the node's depth in node_stack when it was inserted.
C8_ChildLevelIsParentPlusOne ==
    (pc \in {"loop", "visualize"} /\ DistinctHeadings) =>
        /\ nodes[root].level = 0
        /\ \A e \in edges : nodes[e[2]].level = nodes[e[1]].level + 1
        /\ \A k \in 1..Len(node_stack) : nodes[node_stack[k]].level = k - 1

\* A built graph of distinct headings, three levels deep.
C8_Witness ==
    /\ Built
    /\ DistinctHeadings
    /\ \E e \in edges : nodes[e[2]].level = 3

\* C9: main runs extract, build, visualize, save in this order; it returns 0
\* exactly when all four have completed, and returns 1 on the step that
\* raises, after which nothing more is done.
C9_MainStages ==
    [][ /\ pc = "extract" => pc' \in {"build", "returned"}
        /\ pc = "build" => pc' = "loop"
        /\ pc = "loop" => pc' \in {"loop", "visualize", "returned"}
        /\ pc = "visualize" => pc' \in {"save", "returned"}
        /\ pc = "save" => pc' = "returned"
        /\ pc # "returned"
        /\ elements' # elements => pc = "extract"
        /\ (nodes' # nodes \/ edges' # edges) => pc \in {"build", "loop"}
        /\ html_file' # html_file => (pc = "visualize" /\ html_file' # {})
        /\ json_file' # json_file => (pc = "save" /\ json_file' # {})
        /\ IF pc' = "returned" THEN ret' \in {{0}, {1}} ELSE ret' = {}
        /\ ret' = {0} <=> ( /\ pc = "save"
                            /\ html_file # {}
                            /\ json_file' # {} )
        /\ ret' = {1} => (html_file' = html_file /\ json_file' = json_file
                             /\ nodes' = nodes /\ edges' = edges)
      ]_vars

\* main returned 1 from save, after build and visualize had completed.
C9_Witness ==
    /\ pc = "returned"
    /\ ret = {1}
    /\ nodes_added > 0
    /\ html_file # {}
    /\ json_file = {}

C11_NoParentSmallerThanChild ==
    (pc \in {"loop", "visualize"} /\ DistinctHeadings) =>
        \A e \in edges :
            e[1] # root => nodes[e[1]].font_size >= nodes[e[2]].font_size

\* A built graph of distinct headings where a heading was popped by a larger
\* one, which then took a smaller heading as its child.
C11_Witness ==
    /\ Built
    /\ DistinctHeadings
    /\ \E e \in edges :
           /\ e[1] # root
           /\ nodes[e[1]].font_size > nodes[e[2]].font_size
           /\ \E s \in DOMAIN nodes :
                  /\ <<root, s>> \in edges
                  /\ <<root, e[1]>> \in edges
                  /\ nodes[s].font_size < nodes[e[1]].font_size

\* The bold element at position k is removed by neither skip: it is not the
\* first bold element of the sequence and its text is no numbering item.
KeptBold(k) ==
    /\ elements[k].is_bold
    /\ \E j \in 1..(k - 1) : elements[j].is_bold
    /\ ~NumberingText(elements[k].text)

LargerThanRegular(k) == elements[k].font_size > regular_font_size

EndsInColon(k) == elements[k].text[Len(elements[k].text)] = ":"

\* The element after position k exists, is not bold and starts with a colon.
ColonFollows(k) ==
    /\ k < Len(elements)
    /\ ~elements[k + 1].is_bold
    /\ elements[k + 1].text[1] = ":"

\* C12: a bold element that neither skip removes becomes a node exactly when
\* its font size exceeds regular_font_size, or its text ends with a colon, or
\* the next element exists, is not bold and starts with a colon; otherwise
\* the step adds no node.
C12_PromotedIffQualified ==
    [][(InLoop /\ KeptBold(i)) =>
         /\ (LargerThanRegular(i) \/ EndsInColon(i) \/ ColonFollows(i)) =>
                /\ nodes_added' = nodes_added + 1
                /\ elements[i].text \in DOMAIN nodes'
                /\ current_node' = elements[i].text
         /\ ~(LargerThanRegular(i) \/ EndsInColon(i) \/ ColonFollows(i)) =>
                /\ nodes_added' = nodes_added
                /\ DOMAIN nodes' = DOMAIN nodes
                /\ edges' = edges
                /\ current_node' = current_node]_vars

\* A bold element followed by a bold line starting with a colon was left as
\* content, and a bold element qualified by the lookahead alone is a node.
C12_Witness ==
    /\ pc = "loop"
    /\ \E k \in 1..(i - 1) :
           /\ KeptBold(k)
           /\ ~LargerThanRegular(k) /\ ~EndsInColon(k)
           /\ k < Len(elements)
           /\ elements[k + 1].is_bold /\ elements[k + 1].text[1] = ":"
           /\ elements[k].text \notin DOMAIN nodes
    /\ \E k \in 1..(i - 1) :
           /\ KeptBold(k)
           /\ ~LargerThanRegular(k) /\ ~EndsInColon(k)
           /\ ColonFollows(k)
           /\ elements[k].text \in DOMAIN nodes

\* The element at position k is bold, kept by both skips and qualified as a
\* heading.
HeadingAt(k) ==
    KeptBold(k) /\ (LargerThanRegular(k) \/ EndsInColon(k) \/ ColonFollows(k))

\* The element at position k is neither skipped nor promoted.
TextAt(k) ==
    /\ ~NumberingText(elements[k].text)
    /\ elements[k].is_bold => \E j \in 1..(k - 1) : elements[j].is_bold
    /\ ~HeadingAt(k)

\* The id of the heading inserted last among the elements before position k,
\* the root id when there is none.
LastHeadingBefore(k) ==
    LET inserted == {j \in 1..(k - 1) : HeadingAt(j)}
    IN IF inserted = {} THEN root ELSE elements[SetMax(inserted)].text

\* C13: an element that is neither skipped nor promoted adds no node and no
\* edge; its text, preceded by one space, is appended to the content of the
\* heading inserted last (the root when there is none), and no other node
\* changes.
C13_TextGoesToLastHeading ==
    [][(InLoop /\ TextAt(i)) =>
         /\ nodes' = [nodes EXCEPT ![LastHeadingBefore(i)].content =
                                       @ \o <<" ">> \o elements[i].text]
         /\ edges' = edges
         /\ nodes_added' = nodes_added
         /\ node_stack' = node_stack]_vars

\* A level 2 heading was followed by a heading that popped the stack back to
\* level 1; the text after it is in that heading's content and in no other.
C13_Witness ==
    /\ pc = "loop"
    /\ i > 1
    /\ TextAt(i - 1)
    /\ DistinctHeadings
    /\ Len(node_stack) = 2
    /\ \E n \in DOMAIN nodes : nodes[n].level = 2
    /\ current_node = LastHeadingBefore(i - 1)
    /\ nodes[current_node].content = <<" ">> \o elements[i - 1].text
    /\ \A n \in DOMAIN nodes \ {current_node} : nodes[n].content = <<>>

\* The position k holds the first non-bold element of the sequence.
FirstPlainAt(k) ==
    /\ ~elements[k].is_bold
    /\ \A j \in 1..(k - 1) : elements[j].is_bold

\* C14: from the start of the loop to the end of the build, regular_font_size
\* is the font size of the first non-bold element of the whole sequence,
\* numbering items included, and 8 when every element is bold.
C14_RegularIsFirstPlainSize ==
    pc \in {"loop", "visualize"} =>
        /\ (\A k \in 1..Len(elements) : elements[k].is_bold) =>
               regular_font_size = 8
        /\ \A k \in 1..Len(elements) :
               FirstPlainAt(k) => regular_font_size = elements[k].font_size

\* The first non-bold element is a numbering item that the loop has already
\* dropped, a later non-bold element has another font size, and
\* regular_font_size is still the numbering item's.
C14_Witness ==
    /\ pc = "loop"
    /\ \E k \in 1..(i - 1) :
           /\ FirstPlainAt(k)
           /\ NumberingText(elements[k].text)
           /\ regular_font_size = elements[k].font_size
           /\ \E j \in (k + 1)..(i - 1) :
                  /\ ~elements[j].is_bold
                  /\ ~NumberingText(elements[j].text)
                  /\ elements[j].font_size # elements[k].font_size

\* The node n is kept by the step: same level, font size, underline flag and
\* incoming edges, and its content before the step is a prefix of its content
\* after it.
NodeKept(n) ==
    /\ n \in DOMAIN nodes'
    /\ nodes'[n].level = nodes[n].level
    /\ nodes'[n].font_size = nodes[n].font_size
    /\ nodes'[n].is_underlined = nodes[n].is_underlined
    /\ {e \in edges' : e[2] = n} = {e \in edges : e[2] = n}
    /\ Len(nodes'[n].content) >= Len(nodes[n].content)
    /\ SubSeq(nodes'[n].content, 1, Len(nodes[n].content)) = nodes[n].content

\* C15: no step of the loop changes the level, font size, underline flag or
\* incoming edges of a node already in the graph, and content is only ever
\* extended.
C15_InsertedNodesUnchanged ==
    [][InLoop => \A n \in DOMAIN nodes : NodeKept(n)]_vars

\* C15 restricted to the steps that insert a text which is not yet a node id.
C15_FreshInsertKeepsNodes ==
    [][(InLoop /\ (InsertsHeading => elements[i].text \notin DOMAIN nodes))
           => \A n \in DOMAIN nodes : NodeKept(n)]_vars

\* The union box of a line's spans: left, right and bottom edge.
LineLeft(line) == SetMin({line.spans[k].bbox[1] : k \in 1..Len(line.spans)})
LineRight(line) == SetMax({line.spans[k].bbox[3] : k \in 1..Len(line.spans)})
LineBottom(line) == SetMax({line.spans[k].bbox[4] : k \in 1..Len(line.spans)})

\* The page has a filled rectangle of height below 5 that overlaps the line
\* horizontally by more than 0 and whose top edge is less than 5 away from the
\* line's bottom edge.
HasStrokeUnder(page, line) ==
    \E d \in 1..Len(page.drawings) :
        /\ page.drawings[d].type = "f"
        /\ \E m \in 1..Len(page.drawings[d].items) :
               LET item == page.drawings[d].items[m]
                   r == item[2]
                   right == IF LineRight(line) < r.x1 THEN LineRight(line)
                            ELSE r.x1
                   left == IF LineLeft(line) > r.x0 THEN LineLeft(line)
                           ELSE r.x0
               IN /\ item[1] = "re"
                  /\ r.y1 - r.y0 < 5
                  /\ right - left > 0
                  /\ r.y0 - LineBottom(line) < 5
                  /\ LineBottom(line) - r.y0 < 5

\* C16: the element extracted from a one-line page is marked underlined
\* exactly when the page has a filled rectangle of height below 5 whose
\* horizontal overlap with the line's union box is positive and whose top
\* edge is less than 5 from the box's bottom edge; a taller rectangle never
\* marks the line.
C16_UnderlinedIffStrokeUnder ==
    (pc = "build" /\ Len(document) = 1 /\ Len(document[1].lines) = 1
                  /\ Len(elements) = 1) =>
        (elements[1].is_underlined
            <=> HasStrokeUnder(document[1], document[1].lines[1]))

\* The extracted line is underlined by a rectangle of height 4 that starts 4
\* above the line's bottom edge and overlaps the line by one unit, next to
\* the thick box that does not count.
C16_Witness ==
    /\ pc = "build"
    /\ Len(elements) = 1
    /\ elements[1].is_underlined
    /\ document[1].lines = <<MeasuredLine>>
    /\ LET r == document[1].drawings[2].items[1][2]
       IN /\ r.y1 - r.y0 = 4
          /\ r.y0 = 16
          /\ r.x0 = 2 /\ r.x1 = 4

\* C17: from the start of the loop on, node_stack is never empty and its
\* bottom entry is the root; when a heading is about to be inserted, the
\* parent walk leaves the root on the stack, so the fallback that pushes the
\* root again is never taken.
C17_RootStaysOnStack ==
    pc \in {"loop", "visualize"} =>
        /\ node_stack # <<>>
        /\ node_stack[1] = root
        /\ (InLoop /\ HeadingAt(i)) =>
               LET walked == SelectParent(node_stack, nodes, root,
                                          elements[i].font_size,
                                          elements[i].is_underlined)
               IN walked # <<>> /\ walked[1] = root

\* A heading is about to be inserted whose walk pops every entry above the
\* root, and only those.
C17_Witness ==
    /\ InLoop
    /\ HeadingAt(i)
    /\ Len(node_stack) >= 3
    /\ SelectParent(node_stack, nodes, root, elements[i].font_size,
                    elements[i].is_underlined) = <<root>>

\* The node above may have the node below as its stack neighbour or child:
\* it is larger, or of equal size, underlined, with the lower one not
\* underlined.
MayNest(above, below) ==
    \/ nodes[above].font_size > nodes[below].font_size
    \/ /\ nodes[above].font_size = nodes[below].font_size
       /\ nodes[above].is_underlined
       /\ ~nodes[below].is_underlined

\* C18: when the heading texts are pairwise distinct and differ from the
\* root id, a node whose non-root parent has its font size has an underlined
\* parent and is not underlined itself; above the root, font sizes along
\* node_stack never increase from bottom to top, and of two adjacent entries
\* of equal size the lower is underlined and the upper is not.
C18_EqualSizeOnlyUnderUnderlined ==
    (pc \in {"loop", "visualize"} /\ DistinctHeadings) =>
        /\ \A e \in edges : e[1] # root => MayNest(e[1], e[2])
        /\ \A k \in 2..(Len(node_stack) - 1) :
               MayNest(node_stack[k], node_stack[k + 1])

\* Distinct headings with two adjacent stack entries of the same size above
\* the root, the upper the child of the lower, under a larger heading.
C18_Witness ==
    /\ pc = "loop"
    /\ DistinctHeadings
    /\ \E k \in 3..(Len(node_stack) - 1) :
           /\ nodes[node_stack[k]].font_size = nodes[node_stack[k + 1]].font_size
           /\ nodes[node_stack[k - 1]].font_size > nodes[node_stack[k]].font_size
           /\ <<node_stack[k], node_stack[k + 1]>> \in edges

\* C19: from the start of the loop to the end of the build, current_node is
\* the top entry of node_stack.
C19_CurrentNodeIsStackTop ==
    pc \in {"loop", "visualize"} =>
        current_node = node_stack[Len(node_stack)]

\* After a heading that popped an earlier one and a text element: the text
\* is in the content of the stack top, which is the current node.
C19_Witness ==
    /\ pc = "loop"
    /\ nodes_added >= 2
    /\ Len(node_stack) = 2
    /\ current_node = node_stack[2]
    /\ i > 1
    /\ TextAt(i - 1)
    /\ nodes[node_stack[2]].content = <<" ">> \o elements[i - 1].text

====
